---- MODULE Spec2Model ----
(***************************************************************************)
(* Model of the yiila core (src/lib/index.js): the path-alias resolver,    *)
(* the class importer, the lazy-loading proxy, the component factory and   *)
(* the application singleton.                                              *)
(*                                                                         *)
(* Encoding of JavaScript values:                                          *)
(*   - a dotted alias string is the sequence of its dot-separated          *)
(*     segments ("app.models.User" is <<"app","models","User">>);          *)
(*   - a filesystem path is the sequence of its segments                   *)
(*     ("/srv/app/models" is <<"srv","app","models">>);                     *)
(*   - the empty sequence stands for undefined / false / null where a      *)
(*     path, a class name or a loaded module is expected;                  *)
(*   - a loaded module (what require() returns) is identified by the real  *)
(*     path of the file it was loaded from.                                *)
(***************************************************************************)
EXTENDS Naturals, Sequences, FiniteSets, TLC

VARIABLES _app, disposeLog, _aliases, _imports, _classMap, _includePaths, target, YIILA_DEBUG, last

vars == <<_app, disposeLog, _aliases, _imports, _classMap, _includePaths, target, YIILA_DEBUG, last>>

\* The tables of the importer and of the lazy loader.
tables == <<_aliases, _imports, _classMap, _includePaths, target>>

(***************************************************************************)
(* Bounds of the model.                                                    *)
(***************************************************************************)
\* Longest recorded history of dispose() calls.
MaxLog == 3
\* Most constructor arguments forwarded by createComponent.
MaxArgs == 1
\* Most keys besides 'class' in a component descriptor.
MaxKeys == 2

(***************************************************************************)
(* Generic helpers.                                                        *)
(***************************************************************************)
None == <<>>

Last(s) == s[Len(s)]

Front(s) == SubSeq(s, 1, Len(s) - 1)

RECURSIVE IndexOf(_, _, _)
\* Array.prototype.indexOf from position i: 0 stands for -1.
IndexOf(arr, x, i) == IF i > Len(arr) THEN 0 ELSE IF arr[i] = x THEN i ELSE IndexOf(arr, x, i + 1)

(***************************************************************************)
(* The world around the loader: names, paths and the files on disk.        *)
(***************************************************************************)
\* The extension of a class file.
Ext == ".js"

\* __dirname of lib/index.js, the path of the 'system' alias.
Dirname == <<"opt", "yiila">>

\* process.cwd().
Cwd == <<"srv", "app">>

\* The other directory an alias may point to.
Lib == <<"srv", "lib">>

\* The built-in table (one of its entries).
_coreClasses == [CLogger |-> <<"logging", "CLogger">>]

\* The type names callers refer to.
TypeNames == {"CLogger", "User", "Post", "Admin"}

\* The aliases callers import.
ImportAliases == {<<"app", "*">>, <<"app", "models", "*">>, <<"app", "models", "User">>, <<"nope", "User">>, <<"User">>}

\* Every key the alias table and the import cache are asked for.
AliasNames == ImportAliases \cup {<<"system">>, <<"app">>, <<"nope">>} \cup {<<n>> : n \in TypeNames}

\* The regular files on disk, by their real names.
RegularFiles == {Cwd \o <<"CLogger.js">>, Cwd \o <<"User.js">>, Cwd \o <<"models", "User.js">>, Cwd \o <<"models", "admin.js">>, Lib \o <<"Post.js">>, Lib \o <<"models", "Post.js">>}

\* Directories on disk that are named like a class file.
DirsOnDisk == {Cwd \o <<"Admin.js">>}

\* Case folding of a path segment: the filesystem of the model compares names
\* without regard to case (on a case-sensitive one a differently-cased file is
\* simply not found, as for a name with no file at all).
Fold(seg) == IF seg = "Admin.js" THEN "admin.js" ELSE seg

\* Whether the filesystem takes the requested path for the entry on disk.
SamePath(req, real) == /\ Len(req) = Len(real)
                       /\ \A i \in 1..Len(req) : Fold(req[i]) = Fold(real[i])

\* fs.statSync(p): "file", "dir", or "none" when it throws.
StatSync(p) == IF \E f \in RegularFiles : SamePath(p, f) THEN "file" ELSE IF \E d \in DirsOnDisk : SamePath(p, d) THEN "dir" ELSE "none"

\* Whether require(p) finds a module; the built-in modules ship with the library.
Loadable(p) == \/ SubSeq(p, 1, Len(Dirname)) = Dirname
               \/ \E f \in RegularFiles : SamePath(p, f)

\* require(p): the module of the file p names, identified by the file's real path.
Require(p) == IF \E f \in RegularFiles : SamePath(p, f) THEN CHOOSE f \in RegularFiles : SamePath(p, f) ELSE p

\* path.basename(p).
Basename(p) == Last(p)

\* path + '.js'.
WithExt(p) == [p EXCEPT ![Len(p)] = @ \o Ext]

\* path.join(p, segs...): the segments of the model need no normalising.
PathJoin(p, segs) == p \o segs

\* A path handed to setPathOfAlias: absolute or relative to the working directory.
PathArg(abs, segs) == [abs |-> abs, segs |-> segs]

\* null as the path argument of setPathOfAlias.
NullPath == PathArg(FALSE, None)

\* path.resolve(process.cwd(), path).
PathResolve(cwd, p) == IF p.abs THEN p.segs ELSE cwd \o p.segs

(***************************************************************************)
(* Alias resolver.                                                         *)
(***************************************************************************)
\* Mutant: the wildcard segment is not dropped before the join.
GetPathKeepsWildcard(al, alias) == IF al[alias] # None
                                   THEN [aliases |-> al, path |-> al[alias]]
                                   ELSE IF Len(alias) > 1 /\ al[<<alias[1]>>] # None
                                        THEN [aliases |-> [al EXCEPT ![alias] = PathJoin(al[<<alias[1]>>], Tail(alias))], path |-> PathJoin(al[<<alias[1]>>], Tail(alias))]
                                        ELSE [aliases |-> al, path |-> None]

\* Mutant: a compound alias is derived from its root on every call, cached or not.
GetPathRecomputes(al, alias) == IF Len(alias) > 1 /\ al[<<alias[1]>>] # None
                                THEN [aliases |-> [al EXCEPT ![alias] = PathJoin(al[<<alias[1]>>], IF Last(alias) = "*" THEN Front(Tail(alias)) ELSE Tail(alias))], path |-> PathJoin(al[<<alias[1]>>], IF Last(alias) = "*" THEN Front(Tail(alias)) ELSE Tail(alias))]
                                ELSE [aliases |-> al, path |-> al[alias]]

\* getPathOfAlias(alias) on the alias table al: the table afterwards and the
\* path returned (None for false).
getPathOfAlias(al, alias) == IF al[alias] # None
                             THEN [aliases |-> al, path |-> al[alias]]
                             ELSE IF Len(alias) > 1
                                  THEN LET rootAlias == <<alias[1]>>
                                           rest == Tail(alias)
                                           args == IF Last(rest) = "*" THEN Front(rest) ELSE rest
                                       IN IF al[rootAlias] # None
                                          THEN [aliases |-> [al EXCEPT ![alias] = PathJoin(al[rootAlias], args)], path |-> PathJoin(al[rootAlias], args)]
                                          ELSE [aliases |-> al, path |-> None]
                                  ELSE [aliases |-> al, path |-> None]

\* Mutant: a null path is ignored instead of removing the alias.
SetPathIgnoresNull(al, alias, path) == IF path = NullPath THEN al ELSE [al EXCEPT ![alias] = PathResolve(Cwd, path)]

\* setPathOfAlias(alias, path) on the alias table al.
setPathOfAlias(al, alias, path) == IF path = NullPath THEN [al EXCEPT ![alias] = None] ELSE [al EXCEPT ![alias] = PathResolve(Cwd, path)]

(***************************************************************************)
(* Lazy loader: the get trap of the proxy.                                 *)
(***************************************************************************)
\* The tables as one value, as the operators below pass them on.
Tables == [aliases |-> _aliases, imports |-> _imports, classMap |-> _classMap, includePaths |-> _includePaths, target |-> target]

\* What a step of the trap leaves behind: the bindings and how it ended.
Trapped(tgt, out) == [target |-> tgt, outcome |-> out]

\* Mutant: the loop gives up after the first directory it looks at.
ScanStopsAtFirst(tgt, ip, name, i, stat) == IF i > Len(ip)
                                            THEN Trapped(tgt, "ok")
                                            ELSE IF StatSync(PathJoin(ip[i], <<name \o Ext>>)) = "file"
                                                 THEN Trapped([tgt EXCEPT ![name] = Require(PathJoin(ip[i], <<name \o Ext>>))], "ok")
                                                 ELSE Trapped(tgt, "ok")

RECURSIVE Scan(_, _, _, _, _)
\* The loop over _includePaths from index i; stat is what earlier iterations left.
Scan(tgt, ip, name, i, stat) == IF i > Len(ip)
                                THEN Trapped(tgt, "ok")
                                ELSE LET classFile == PathJoin(ip[i], <<name \o Ext>>)
                                         st == IF StatSync(classFile) = "none" THEN stat ELSE StatSync(classFile)
                                     IN IF st = "file"
                                        THEN IF YIILA_DEBUG /\ Basename(classFile) # name \o Ext
                                             THEN Trapped([tgt EXCEPT ![name] = Require(classFile)], "ClassFileMismatch")
                                             ELSE Trapped([tgt EXCEPT ![name] = Require(classFile)], "ok")
                                        ELSE Scan(tgt, ip, name, i + 1, st)

\* The stages of the trap for a name that is no own property yet.
Resolve(s, name) == IF name \in DOMAIN _coreClasses
                    THEN Trapped([s.target EXCEPT ![name] = Require(PathJoin(Dirname, _coreClasses[name]))], "ok")
                    ELSE IF s.classMap[name] # None
                         THEN IF Loadable(s.classMap[name])
                              THEN Trapped([s.target EXCEPT ![name] = Require(s.classMap[name])], "ok")
                              ELSE Trapped(s.target, "ModuleNotFound")
                         ELSE IF s.includePaths # None
                              THEN Scan(s.target, s.includePaths, name, 1, "none")
                              ELSE Trapped(s.target, "ok")

\* The get trap for a type name: the bindings afterwards, how it ended, and the
\* value returned (None for undefined).
Get(s, name) == LET r == IF s.target[name] # None THEN Trapped(s.target, "ok") ELSE Resolve(s, name)
                IN [target |-> r.target, outcome |-> r.outcome, value |-> IF r.outcome = "ok" THEN r.target[name] ELSE None]

(***************************************************************************)
(* Class importer.                                                         *)
(***************************************************************************)
\* How a call ends: the tables afterwards, the error thrown ("ok" for none)
\* and the value returned.
Ended(s, out, v) == [s |-> s, outcome |-> out, value |-> v]

\* import of an alias without a separator.
ImportSimple(s, alias, force) == IF force
                                 THEN LET g == Get(s, alias[1])
                                      IN IF g.outcome # "ok"
                                         THEN Ended([s EXCEPT !.target = g.target], g.outcome, None)
                                         ELSE IF g.value # None
                                              THEN Ended([s EXCEPT !.target = g.target, !.imports[alias] = alias], "ok", alias)
                                              ELSE Ended(s, "ok", alias)
                                 ELSE Ended(s, "ok", alias)

\* Mutant: a forced import marks the alias imported before it looks for the file.
ImportClassMarksFirst(s, alias, path, force) == IF force
                                                THEN IF StatSync(WithExt(path)) = "file"
                                                     THEN Ended([s EXCEPT !.target[Last(alias)] = Require(WithExt(path)), !.imports[alias] = <<Last(alias)>>], "ok", <<Last(alias)>>)
                                                     ELSE Ended([s EXCEPT !.imports[alias] = <<Last(alias)>>], "InvalidAlias", None)
                                                ELSE Ended([s EXCEPT !.classMap[Last(alias)] = WithExt(path)], "ok", <<Last(alias)>>)

\* Mutant: an import that is not forced loads the file as well when it is there.
ImportClassEager(s, alias, path, force) == IF StatSync(WithExt(path)) = "file"
                                           THEN Ended([s EXCEPT !.target[Last(alias)] = Require(WithExt(path)), !.imports[alias] = <<Last(alias)>>], "ok", <<Last(alias)>>)
                                           ELSE IF force
                                                THEN Ended(s, "InvalidAlias", None)
                                                ELSE Ended([s EXCEPT !.classMap[Last(alias)] = WithExt(path)], "ok", <<Last(alias)>>)

\* import of a class alias whose path is known.
ImportClass(s, alias, path, force) == LET className == Last(alias)
                                      IN IF force
                                         THEN IF StatSync(WithExt(path)) = "file"
                                              THEN Ended([s EXCEPT !.target[className] = Require(WithExt(path)), !.imports[alias] = <<className>>], "ok", <<className>>)
                                              ELSE Ended(s, "InvalidAlias", None)
                                         ELSE Ended([s EXCEPT !.classMap[className] = WithExt(path)], "ok", <<className>>)

\* Mutant: the directory is appended whether it is listed or not.
ImportDirectoryAlwaysAppends(s, alias, path) == Ended([s EXCEPT !.includePaths = Append(IF s.includePaths = None THEN <<Cwd>> ELSE s.includePaths, path), !.imports[alias] = path], "ok", path)

\* import of a directory alias whose path is known.
ImportDirectory(s, alias, path) == LET paths == IF s.includePaths = None THEN <<Cwd>> ELSE s.includePaths
                                   IN Ended([s EXCEPT !.includePaths = IF IndexOf(paths, path, 1) = 0 THEN Append(paths, path) ELSE paths, !.imports[alias] = path], "ok", path)

\* import(alias, opt_forceInclude).
import(s, alias, force) == IF s.imports[alias] # None
                           THEN Ended(s, "ok", s.imports[alias])
                           ELSE IF Len(alias) = 1
                                THEN ImportSimple(s, alias, force)
                                ELSE LET r == getPathOfAlias(s.aliases, alias)
                                         s1 == [s EXCEPT !.aliases = r.aliases]
                                     IN IF r.path # None
                                        THEN IF Last(alias) # "*" THEN ImportClass(s1, alias, r.path, force) ELSE ImportDirectory(s1, alias, r.path)
                                        ELSE Ended(s1, "InvalidAlias", None)

(***************************************************************************)
(* Component factory.                                                      *)
(***************************************************************************)
\* The property names of the model's components.
PropKeys == {"class", "foo", "bar"}

\* No object.
NoObj == [made |-> FALSE, type |-> None, args |-> <<>>, props |-> [k \in PropKeys |-> None], assigned |-> <<>>]

\* What the constructor of a component class leaves on the new instance: the
\* classes of the model initialise 'foo'.
CtorProps(args) == [k \in PropKeys |-> IF k = "foo" THEN <<"ctor">> ELSE None]

\* construct(constructor, args): a new instance of the class, the constructor
\* applied to the forwarded arguments.
Construct(ctor, args) == [made |-> TRUE, type |-> ctor, args |-> args, props |-> CtorProps(args), assigned |-> <<>>]

RECURSIVE OverlayReversed(_, _, _)
\* Mutant: the configuration is applied first and the constructor's values win.
OverlayReversed(obj, entries, i) == IF i > Len(entries)
                                    THEN obj
                                    ELSE OverlayReversed(IF obj.props[entries[i][1]] = None THEN [obj EXCEPT !.props[entries[i][1]] = entries[i][2], !.assigned = Append(@, entries[i][1])] ELSE obj, entries, i + 1)

RECURSIVE Overlay(_, _, _)
\* for (key in config) obj[key] = config[key], from entry i on.
Overlay(obj, entries, i) == IF i > Len(entries)
                            THEN obj
                            ELSE Overlay(IF entries[i][1] # "class" THEN [obj EXCEPT !.props[entries[i][1]] = entries[i][2], !.assigned = Append(@, entries[i][1])] ELSE obj, entries, i + 1)

\* A string as the value of the variable `type`.
Str(v) == [kind |-> "string", v |-> v]

\* What the trap returned as the value of the variable `type`.
Mod(v) == IF v = None THEN [kind |-> "undefined", v |-> None] ELSE [kind |-> "module", v |-> v]

\* this[type]: a type name goes through the trap; any other key (a dotted alias,
\* a directory path, the text of a function, "undefined") names no property, no
\* built-in, no class-map entry and no file on disk.
Property(s, ty) == IF ty.kind = "string" /\ Len(ty.v) = 1 /\ ty.v[1] \in TypeNames
                   THEN Get(s, ty.v[1])
                   ELSE [target |-> s.target, outcome |-> "ok", value |-> None]

\* this.import(type, true): only a string has lastIndexOf.
ImportValue(s, ty) == IF ty.kind = "string" THEN import(s, ty.v, TRUE) ELSE Ended(s, "TypeError", None)

\* A component configuration: a bare string, or an object with its own
\* enumerable entries <<key, value>> in enumeration order.
Config(bare, name, entries) == [bare |-> bare, name |-> name, entries |-> entries]

NoConfig == Config(FALSE, None, <<>>)

\* config.hasOwnProperty('class').
HasOwnClass(entries) == \E i \in 1..Len(entries) : entries[i][1] = "class"

\* config['class'].
ClassOf(entries) == entries[CHOOSE i \in 1..Len(entries) : entries[i][1] = "class"][2]

\* Mutant: the 'class' entry stays in the configuration.
DeleteClassKeeps(entries) == entries

\* delete config['class'].
DeleteClass(entries) == SelectSeq(entries, LAMBDA e : e[1] # "class")

\* How createComponent ends: the tables, the error thrown, the object returned
\* and the caller's configuration afterwards.
Made(s, out, obj, cfg) == [s |-> s, outcome |-> out, obj |-> obj, config |-> cfg]

\* The object built once the class is known and bound.
Build(s, ty, entries, args, cfg) == LET p == Property(s, ty)
                                    IN IF p.outcome # "ok"
                                       THEN Made([s EXCEPT !.target = p.target], p.outcome, NoObj, cfg)
                                       ELSE IF p.value = None
                                            THEN Made([s EXCEPT !.target = p.target], "TypeError", NoObj, cfg)
                                            ELSE Made([s EXCEPT !.target = p.target], "ok", Overlay(Construct(p.value, args), entries, 1), cfg)

\* createComponent from the test of this[type] on.
Instantiate(s, ty, entries, args, cfg) == LET p == Property(s, ty)
                                              s1 == [s EXCEPT !.target = p.target]
                                          IN IF p.outcome # "ok"
                                             THEN Made(s1, p.outcome, NoObj, cfg)
                                             ELSE IF p.value # None
                                                  THEN Build(s1, ty, entries, args, cfg)
                                                  ELSE LET im == ImportValue(s1, ty)
                                                       IN IF im.outcome # "ok"
                                                          THEN Made(im.s, im.outcome, NoObj, cfg)
                                                          ELSE Build(im.s, Str(im.value), entries, args, cfg)

\* Mutant: a configuration without 'class' is not rejected up front; its
\* undefined type goes on to the import.
CreateComponentChecksLate(s, config, args) == IF config.bare
                                              THEN LET g == Property(s, Str(config.name))
                                                   IN IF g.outcome # "ok"
                                                      THEN Made([s EXCEPT !.target = g.target], g.outcome, NoObj, config)
                                                      ELSE Instantiate([s EXCEPT !.target = g.target], Mod(g.value), <<>>, args, config)
                                              ELSE IF HasOwnClass(config.entries)
                                                   THEN Instantiate(s, Str(ClassOf(config.entries)), DeleteClass(config.entries), args, [config EXCEPT !.entries = DeleteClass(@)])
                                                   ELSE Instantiate(s, Mod(None), config.entries, args, config)

\* createComponent(config, ...args).
createComponent(s, config, args) == IF config.bare
                                    THEN LET g == Property(s, Str(config.name))
                                         IN IF g.outcome # "ok"
                                            THEN Made([s EXCEPT !.target = g.target], g.outcome, NoObj, config)
                                            ELSE Instantiate([s EXCEPT !.target = g.target], Mod(g.value), <<>>, args, config)
                                    ELSE IF HasOwnClass(config.entries)
                                         THEN Instantiate(s, Str(ClassOf(config.entries)), DeleteClass(config.entries), args, [config EXCEPT !.entries = DeleteClass(@)])
                                         ELSE Made(s, "ConfigurationError", NoObj, config)

(***************************************************************************)
(* State machine: one action per call a client of the library makes.       *)
(***************************************************************************)
\* The application instances of the model.
Apps == {"a", "b"}

\* What a caller may pass to setApplication.
AppArgs == Apps \cup {"null", "undefined"}

\* The type names clients refer to through the proxy.
RefNames == TypeNames

\* The aliases setPathOfAlias is called with, and the paths.
SetAliasNames == {<<"app">>}

PathArgs == {NullPath, PathArg(TRUE, Cwd), PathArg(TRUE, Lib)}

\* The aliases getPathOfAlias is called with.
GetAliasNames == {<<"app", "models", "*">>, <<"nope", "User">>}

\* The 'class' values of the model's configurations.
ClassValues == {<<"CLogger">>, <<"User">>, <<"app", "models", "User">>}

\* The entries besides 'class', in each enumeration order.
KeySeqs == {q \in UNION {[1..n -> {<<"foo", <<"x">>>>, <<"bar", <<"y">>>>}] : n \in 0..MaxKeys} : \A i, j \in 1..Len(q) : i # j => q[i] # q[j]}

\* The configurations createComponent is called with.
Configs == {Config(TRUE, c, <<>>) : c \in ClassValues} \cup {Config(FALSE, None, q) : q \in KeySeqs} \cup {Config(FALSE, None, <<<<"class", c>>>> \o q) : c \in ClassValues, q \in KeySeqs}

\* The constructor arguments createComponent forwards.
ArgSeqs == UNION {[1..n -> {"p"}] : n \in 0..MaxArgs}

\* The record of the last call: what was asked and what the caller got.
Call(op, out) == [op |-> op, outcome |-> out, app |-> "null", disposed |-> <<>>, alias |-> None, force |-> FALSE, path |-> NullPath, value |-> None, config |-> NoConfig, args |-> <<>>, obj |-> NoObj, after |-> NoConfig]

\* The tables take the values of s.
SetTables(s) == /\ _aliases' = s.aliases
                /\ _imports' = s.imports
                /\ _classMap' = s.classMap
                /\ _includePaths' = s.includePaths
                /\ target' = s.target

Init == /\ _app = "null"
        /\ disposeLog = <<>>
        /\ _aliases = [a \in AliasNames |-> IF a = <<"system">> THEN Dirname ELSE None]
        /\ _imports = [a \in AliasNames |-> None]
        /\ _classMap = [n \in TypeNames |-> None]
        /\ _includePaths = None
        /\ target = [n \in TypeNames |-> None]
        /\ YIILA_DEBUG \in BOOLEAN
        /\ last = Call("init", "ok")

\* app(): returns the slot.
app == /\ last' = [Call("app", "ok") EXCEPT !.app = _app]
       /\ UNCHANGED <<_app, disposeLog, tables, YIILA_DEBUG>>

\* Mutant: the guard forgets that an application is already registered.
SetApplicationOverwrites(a, disposeThrows) == /\ (a = "null" /\ _app \in Apps) => Len(disposeLog) < MaxLog
                                              /\ disposeLog' = IF a = "null" /\ _app \in Apps THEN Append(disposeLog, _app) ELSE disposeLog
                                              /\ _app' = IF a = "null" /\ _app \in Apps /\ disposeThrows THEN _app ELSE a
                                              /\ last' = [Call("setApplication", IF a = "null" /\ _app \in Apps /\ disposeThrows THEN "DisposeError" ELSE "ok") EXCEPT !.app = a, !.disposed = IF a = "null" /\ _app \in Apps THEN <<_app>> ELSE <<>>]
                                              /\ UNCHANGED <<tables, YIILA_DEBUG>>

\* Mutant: the slot is cleared before the registered application is disposed.
SetApplicationClearsFirst(a, disposeThrows) == /\ (a = "null" /\ _app \in Apps) => Len(disposeLog) < MaxLog
                                               /\ IF _app = "null" \/ a = "null"
                                                  THEN /\ disposeLog' = IF a = "null" /\ _app \in Apps THEN Append(disposeLog, _app) ELSE disposeLog
                                                       /\ _app' = a
                                                       /\ last' = [Call("setApplication", IF a = "null" /\ _app \in Apps /\ disposeThrows THEN "DisposeError" ELSE "ok") EXCEPT !.app = a, !.disposed = IF a = "null" /\ _app \in Apps THEN <<_app>> ELSE <<>>]
                                                  ELSE /\ UNCHANGED <<_app, disposeLog>>
                                                       /\ last' = [Call("setApplication", "MultipleApplicationError") EXCEPT !.app = a]
                                               /\ UNCHANGED <<tables, YIILA_DEBUG>>

\* setApplication(a). A registered application is disposed when the slot is
\* cleared: the call of its dispose() is recorded in disposeLog, and the hook,
\* which the application class provides, returns or throws (disposeThrows).
setApplication(a, disposeThrows) == /\ (a = "null" /\ _app \in Apps) => Len(disposeLog) < MaxLog
                                    /\ IF _app = "null" \/ a = "null"
                                       THEN IF a = "null" /\ _app \in Apps
                                            THEN /\ disposeLog' = Append(disposeLog, _app)
                                                 /\ _app' = IF disposeThrows THEN _app ELSE a
                                                 /\ last' = [Call("setApplication", IF disposeThrows THEN "DisposeError" ELSE "ok") EXCEPT !.app = a, !.disposed = <<_app>>]
                                            ELSE /\ disposeLog' = disposeLog
                                                 /\ _app' = a
                                                 /\ last' = [Call("setApplication", "ok") EXCEPT !.app = a]
                                       ELSE /\ UNCHANGED <<_app, disposeLog>>
                                            /\ last' = [Call("setApplication", "MultipleApplicationError") EXCEPT !.app = a]
                                    /\ UNCHANGED <<tables, YIILA_DEBUG>>

\* Yiila[name]: a reference to a type name through the proxy.
Reference(name) == LET g == Get(Tables, name)
                   IN /\ target' = g.target
                      /\ last' = [Call("get", g.outcome) EXCEPT !.alias = <<name>>, !.value = g.value]
                      /\ UNCHANGED <<_app, disposeLog, _aliases, _imports, _classMap, _includePaths, YIILA_DEBUG>>

\* Yiila.import(alias, force).
Import(alias, force) == LET r == import(Tables, alias, force)
                        IN /\ SetTables(r.s)
                           /\ last' = [Call("import", r.outcome) EXCEPT !.alias = alias, !.force = force, !.value = r.value]
                           /\ UNCHANGED <<_app, disposeLog, YIILA_DEBUG>>

\* Yiila.getPathOfAlias(alias).
GetPathOfAlias(alias) == LET r == getPathOfAlias(_aliases, alias)
                         IN /\ _aliases' = r.aliases
                            /\ last' = [Call("getPathOfAlias", "ok") EXCEPT !.alias = alias, !.value = r.path]
                            /\ UNCHANGED <<_app, disposeLog, _imports, _classMap, _includePaths, target, YIILA_DEBUG>>

\* Yiila.setPathOfAlias(alias, path).
SetPathOfAlias(alias, path) == /\ _aliases' = setPathOfAlias(_aliases, alias, path)
                               /\ last' = [Call("setPathOfAlias", "ok") EXCEPT !.alias = alias, !.path = path]
                               /\ UNCHANGED <<_app, disposeLog, _imports, _classMap, _includePaths, target, YIILA_DEBUG>>

\* Yiila.createComponent(config, ...args).
CreateComponent(config, args) == LET r == createComponent(Tables, config, args)
                                 IN /\ SetTables(r.s)
                                    /\ last' = [Call("createComponent", r.outcome) EXCEPT !.config = config, !.args = args, !.obj = r.obj, !.after = r.config]
                                    /\ UNCHANGED <<_app, disposeLog, YIILA_DEBUG>>

\* The calls on the alias resolver, the importer and the loader.
Next == \/ \E name \in RefNames : Reference(name)
        \/ \E alias \in ImportAliases, force \in BOOLEAN : Import(alias, force)
        \/ \E alias \in GetAliasNames : GetPathOfAlias(alias)
        \/ \E alias \in SetAliasNames, path \in PathArgs : SetPathOfAlias(alias, path)

Spec == Init /\ [][Next]_vars

\* The calls on the application singleton, which shares no state with the rest.
NextApp == \/ \E a \in AppArgs, disposeThrows \in BOOLEAN : setApplication(a, disposeThrows)
           \/ app

SpecApp == Init /\ [][NextApp]_vars

\* The aliases imported and the paths set around the factory.
FactoryImports == {<<"app", "models", "*">>, <<"app", "models", "User">>}

FactoryPathArgs == {NullPath, PathArg(TRUE, Cwd)}

\* The calls on the factory, with the imports that make classes known to it.
NextFactory == \/ \E config \in Configs, args \in ArgSeqs : CreateComponent(config, args)
               \/ \E alias \in FactoryImports, force \in BOOLEAN : Import(alias, force)
               \/ \E alias \in SetAliasNames, path \in FactoryPathArgs : SetPathOfAlias(alias, path)

SpecFactory == Init /\ [][NextFactory]_vars

(***************************************************************************)
(* Application singleton: properties.                                      *)
(***************************************************************************)
\* C1: a setApplication call with a non-null argument made while an
\* application is registered fails with 'Application can only be created
\* once.', calls no disposal hook and leaves the registered application in
\* the slot.
C1_SecondApplicationRejected == [][(last'.op = "setApplication" /\ last'.app # "null" /\ _app \in Apps) => (last'.outcome = "MultipleApplicationError" /\ last'.disposed = <<>> /\ disposeLog' = disposeLog /\ _app' = _app)]_vars

\* A second application was offered while another one was registered.
C1_Witness == last.op = "setApplication" /\ last.outcome = "MultipleApplicationError" /\ last.app \in Apps /\ _app \in Apps /\ last.app # _app

\* C2: setApplication(null) with an application registered calls that
\* application's disposal hook exactly once and empties the slot only once the
\* hook has returned (a hook that throws leaves the application registered);
\* with an empty slot it calls no hook and changes nothing; and on an empty
\* slot any setApplication succeeds, so that a new application is adopted after
\* the old one was disposed.
C2_ClearDisposesThenEmpties == [][(last'.op = "setApplication" /\ (last'.app = "null" \/ _app = "null")) => IF last'.app = "null" /\ _app \in Apps THEN (disposeLog' = Append(disposeLog, _app) /\ last'.disposed = <<_app>> /\ (last'.outcome = "ok" => _app' = "null") /\ (last'.outcome # "ok" => _app' = _app)) ELSE (last'.outcome = "ok" /\ last'.disposed = <<>> /\ disposeLog' = disposeLog /\ _app' = last'.app)]_vars

\* Application b was adopted after application a had been disposed.
C2_Witness == last.op = "setApplication" /\ last.outcome = "ok" /\ last.app = "b" /\ _app = "b" /\ disposeLog = <<"a">>

(***************************************************************************)
(* Component factory: properties.                                          *)
(***************************************************************************)
\* The type name a reference binds for a 'class' value that is a type name.
Resolvable(c) == Len(c) = 1 /\ c[1] \in TypeNames /\ Get(Tables, c[1]).value # None

\* C3: createComponent with a bare type name that the lazy loader resolves
\* returns a new instance of that type, built with the forwarded arguments and
\* with no property applied.
C3_BareNameConstructs == [][(last'.op = "createComponent" /\ last'.config.bare /\ Resolvable(last'.config.name)) => (last'.outcome = "ok" /\ last'.obj = Construct(target'[last'.config.name[1]], last'.args))]_vars

\* C4: createComponent with a configuration object that has no 'class' entry
\* fails with the configuration error and changes no table.
C4_MissingClassRejected == [][(last'.op = "createComponent" /\ ~last'.config.bare /\ ~HasOwnClass(last'.config.entries)) => (last'.outcome = "ConfigurationError" /\ ~last'.obj.made /\ UNCHANGED tables)]_vars

\* A configuration without 'class' was rejected after imports had filled the tables.
C4_Witness == last.op = "createComponent" /\ last.outcome = "ConfigurationError" /\ last.config.entries # <<>> /\ _includePaths # None /\ _classMap["User"] # None

\* The keys of the entries, in order.
KeysOf(entries) == [i \in 1..Len(entries) |-> entries[i][1]]

\* C5: createComponent with a configuration object whose 'class' is a type
\* name the lazy loader resolves returns an instance of that type, built with
\* the forwarded arguments, on which every entry but 'class' was assigned
\* after construction, in enumeration order, over what the constructor set;
\* 'class' is never assigned.
C5_OverlayAfterConstruction == [][(last'.op = "createComponent" /\ ~last'.config.bare /\ HasOwnClass(last'.config.entries) /\ Resolvable(ClassOf(last'.config.entries))) => LET rest == DeleteClass(last'.config.entries) IN (last'.outcome = "ok" /\ last'.obj.made /\ last'.obj.type = target'[ClassOf(last'.config.entries)[1]] /\ last'.obj.args = last'.args /\ last'.obj.assigned = KeysOf(rest) /\ \A k \in PropKeys : last'.obj.props[k] = IF \E i \in 1..Len(rest) : rest[i][1] = k THEN rest[CHOOSE i \in 1..Len(rest) : rest[i][1] = k][2] ELSE CtorProps(last'.args)[k])]_vars

\* A component was built whose configuration overrode what the constructor set.
C5_Witness == last.op = "createComponent" /\ last.outcome = "ok" /\ last.obj.assigned = <<"bar", "foo">> /\ last.obj.props["foo"] = <<"x">> /\ last.obj.props["bar"] = <<"y">> /\ last.obj.args = <<"p">> /\ last.obj.type = Cwd \o <<"models", "User.js">>

(***************************************************************************)
(* Lazy loader: properties.                                                *)
(***************************************************************************)
\* The positions of the directories of dirs that hold a regular file <n>.js.
HitIndexes(n, dirs) == {i \in 1..Len(dirs) : StatSync(PathJoin(dirs[i], <<n \o Ext>>)) = "file"}

\* The module of <n>.js in the first directory of dirs that holds such a
\* regular file; None when no directory does.
ScanFinds(n, dirs) == IF HitIndexes(n, dirs) = {}
                      THEN None
                      ELSE Require(PathJoin(dirs[CHOOSE i \in HitIndexes(n, dirs) : \A j \in HitIndexes(n, dirs) : i <= j], <<n \o Ext>>))

\* What the first stage that succeeds binds: the built-in module, else the
\* loadable file of the class map, else what the directory scan finds.
StageBinding(n) == IF n \in DOMAIN _coreClasses
                   THEN PathJoin(Dirname, _coreClasses[n])
                   ELSE IF _classMap[n] # None /\ Loadable(_classMap[n])
                        THEN Require(_classMap[n])
                        ELSE ScanFinds(n, _includePaths)

\* A reference to the type name n, which was not bound before.
FirstReference(n) == last'.op = "get" /\ last'.alias = <<n>> /\ target[n] = None

\* C6: a reference to an unbound name tries built-in table, class map and
\* directory scan in this order, goes on whenever a stage does not succeed, and
\* binds what the first successful stage yields.
C6_StagesInOrder == [][\A n \in TypeNames : FirstReference(n) => (last'.outcome = "ok" /\ last'.value = StageBinding(n) /\ target' = IF StageBinding(n) = None THEN target ELSE [target EXCEPT ![n] = StageBinding(n)])]_vars

\* The directories of the include path list that a wildcard import added.
ImportedDirs == SelectSeq(_includePaths, LAMBDA d : \E a \in AliasNames : Last(a) = "*" /\ _imports[a] = d)

\* A first reference to a name that neither the built-in table nor the class map knows.
ScannedReference(n) == FirstReference(n) /\ n \notin DOMAIN _coreClasses /\ _classMap[n] = None

\* C7 as stated: the scan visits exactly the directories added by wildcard
\* imports, in import order, and loads <n>.js from the first that holds it.
C7_ScanOnlyImportedDirs == [][\A n \in TypeNames : ScannedReference(n) => (last'.outcome = "ok" /\ last'.value = ScanFinds(n, ImportedDirs))]_vars

\* The include path list after a wildcard import that resolved to dir.
Included(dir) == LET paths == IF _includePaths = None THEN <<Cwd>> ELSE _includePaths
                 IN IF \E i \in 1..Len(paths) : paths[i] = dir THEN paths ELSE Append(paths, dir)

\* C7, amended: the scan visits the include path list as it stands, which the
\* first wildcard import starts with the working directory and to which every
\* wildcard import appends its directory unless it is listed; the reference
\* loads <n>.js from the first listed directory that holds such a regular file
\* and yields undefined, binding nothing, when none does or no list exists.
C7_ScanIncludePathsInOrder == [][/\ \A n \in TypeNames : ScannedReference(n) => (last'.outcome = "ok" /\ last'.value = ScanFinds(n, _includePaths) /\ target' = IF ScanFinds(n, _includePaths) = None THEN target ELSE [target EXCEPT ![n] = ScanFinds(n, _includePaths)])
                                 /\ (last'.op = "import" /\ last'.outcome = "ok" /\ Last(last'.alias) = "*") => _includePaths' = IF _imports[last'.alias] # None THEN _includePaths ELSE Included(last'.value)
                                 /\ (last'.op = "import" /\ ~(last'.outcome = "ok" /\ Last(last'.alias) = "*")) => _includePaths' = _includePaths]_vars

\* Post, which two imported directories hold, was loaded from the one imported
\* first, after the working directory did not hold it.
C7_Witness == last.op = "get" /\ last.alias = <<"Post">> /\ last.value = Lib \o <<"models", "Post.js">> /\ _includePaths = <<Cwd, Lib \o <<"models">>, Lib>>

\* C8: a type name, once bound, stays bound to the same module.
C8_BindingsPermanent == [][\A n \in TypeNames : target[n] # None => target'[n] = target[n]]_vars

\* A name that cannot be loaded: no built-in, no loadable class-map file, no
\* file in any include path.
Unloadable(n) == n \notin DOMAIN _coreClasses /\ (_classMap[n] = None \/ ~Loadable(_classMap[n])) /\ HitIndexes(n, _includePaths) = {}

\* C9: a reference to a name that cannot be loaded yields undefined, throws
\* nothing and leaves the bindings as they were.
C9_GracefulMiss == [][\A n \in TypeNames : (FirstReference(n) /\ Unloadable(n)) => (last'.outcome = "ok" /\ last'.value = None /\ target' = target)]_vars

\* C10: when the scan matches a file whose base name differs from <n>.js in
\* letter case, the reference fails with the mismatch error and binds nothing
\* if YIILA_DEBUG is set, and binds the file silently if it is not.
C10_StrictModeRejectsCase == [][\A n \in TypeNames : (ScannedReference(n) /\ ScanFinds(n, _includePaths) # None /\ Basename(ScanFinds(n, _includePaths)) # n \o Ext) => IF YIILA_DEBUG THEN (last'.outcome = "ClassFileMismatch" /\ target'[n] = None) ELSE (last'.outcome = "ok" /\ target'[n] = ScanFinds(n, _includePaths))]_vars

(***************************************************************************)
(* Alias resolver: its calls alone, and its properties.                    *)
(***************************************************************************)
\* The aliases the resolver is asked for and the aliases set or removed.
ResolverGetNames == {<<"app">>, <<"app", "models", "User">>, <<"app", "models", "*">>, <<"nope", "User">>}

ResolverSetNames == {<<"app">>, <<"app", "models", "User">>, <<"app", "models", "*">>}

\* The paths set: absolute ones, one relative to the working directory, and null.
ResolverPathArgs == {NullPath, PathArg(TRUE, Cwd), PathArg(TRUE, Lib), PathArg(FALSE, <<"models">>)}

\* The calls on the alias resolver.
NextAlias == \/ \E alias \in ResolverGetNames : GetPathOfAlias(alias)
             \/ \E alias \in ResolverSetNames, path \in ResolverPathArgs : SetPathOfAlias(alias, path)

SpecAlias == Init /\ [][NextAlias]_vars

\* The compound aliases: those with a separator.
Compound == {k \in AliasNames : Len(k) > 1}

\* The segments after the root, a trailing wildcard dropped.
Segments(k) == IF Last(k) = "*" THEN SubSeq(k, 2, Len(k) - 1) ELSE SubSeq(k, 2, Len(k))

\* A call of getPathOfAlias(k).
Resolved(k) == last'.op = "getPathOfAlias" /\ last'.alias = k

\* C14: resolving a compound alias that is not cached returns the path of its
\* registered root joined with the remaining segments, a trailing wildcard
\* dropped, and stores it under the full alias; with an unknown root it
\* returns not-found and changes nothing.
C14_CompoundResolution == [][\A k \in Compound : (Resolved(k) /\ _aliases[k] = None) => IF _aliases[<<k[1]>>] # None THEN (last'.value = _aliases[<<k[1]>>] \o Segments(k) /\ _aliases' = [_aliases EXCEPT ![k] = _aliases[<<k[1]>>] \o Segments(k)]) ELSE (last'.outcome = "ok" /\ last'.value = None /\ _aliases' = _aliases)]_vars

\* resolve("app.models.*") returned "/srv/app/models" and cached it.
C14_Witness == last.op = "getPathOfAlias" /\ last.alias = <<"app", "models", "*">> /\ last.value = <<"srv", "app", "models">> /\ _aliases[<<"app", "models", "*">>] = <<"srv", "app", "models">> /\ _aliases[<<"app">>] = <<"srv", "app">>

\* C15 as stated: the cached path of a compound alias is what every later
\* resolve returns, and it changes only when the alias itself is removed.
C15_CacheWriteOnce == [][\A k \in Compound : _aliases[k] # None => /\ (Resolved(k) => last'.value = _aliases[k])
                                                                    /\ (~(last'.op = "setPathOfAlias" /\ last'.alias = k /\ last'.path = NullPath) => _aliases'[k] = _aliases[k])]_vars

\* C15, amended: the cached path of a compound alias is what every later
\* resolve returns, whatever became of its root, and it changes only when
\* setPathOfAlias is called for the alias itself, to remove it or to set it.
C15_CacheKeptUntilSet == [][\A k \in Compound : _aliases[k] # None => /\ (Resolved(k) => (last'.value = _aliases[k] /\ _aliases' = _aliases))
                                                                       /\ (~(last'.op = "setPathOfAlias" /\ last'.alias = k) => _aliases'[k] = _aliases[k])]_vars

\* A cached compound alias was resolved again after its root had been removed.
C15_Witness == last.op = "getPathOfAlias" /\ last.alias = <<"app", "models", "User">> /\ last.value = <<"srv", "lib", "models", "User">> /\ _aliases[<<"app">>] = None

\* A call of getPathOfAlias(a) right after setPathOfAlias(a, null).
ResolvedAfterRemoval(a) == last.op = "setPathOfAlias" /\ last.alias = a /\ last.path = NullPath /\ Resolved(a)

\* C16 as stated: for every alias, root-level or compound, resolving it right
\* after its removal yields not-found.
C16_RemovedIsNotFound == [][\A a \in AliasNames : ResolvedAfterRemoval(a) => last'.value = None]_vars

\* C16, amended: resolving an alias right after its removal yields not-found
\* when the alias is root-level or its root is not registered; a compound
\* alias whose root is registered is derived from the root and cached again.
C16_RemovedRootIsNotFound == [][\A a \in AliasNames : ResolvedAfterRemoval(a) => IF Len(a) = 1 \/ _aliases[<<a[1]>>] = None THEN (last'.value = None /\ _aliases' = _aliases) ELSE (last'.value = _aliases[<<a[1]>>] \o Segments(a) /\ _aliases'[a] = last'.value)]_vars

\* The root alias was resolved right after its removal.
C16_Witness == last.op = "getPathOfAlias" /\ last.alias = <<"app">> /\ last.value = None /\ _aliases[<<"app", "models", "User">>] # None

\* A compound entry agrees with what its root yields now.
Consistent(al, k) == al[k] = None \/ (al[<<k[1]>>] # None /\ al[k] = al[<<k[1]>>] \o Segments(k))

\* C17 as stated: in every reachable state every cached compound entry equals
\* what resolution would compute from the current alias table.
C17_CacheConsistent == \A k \in Compound : Consistent(_aliases, k)

\* C17, amended: an entry that resolve caches equals what resolution computes
\* from the alias table at that moment, and every call but setPathOfAlias
\* keeps each entry consistent; setPathOfAlias updates no entry derived from
\* the alias it sets or removes.
C17_ConsistentUntilSet == [][\A k \in Compound : /\ ((last'.op # "setPathOfAlias" /\ Consistent(_aliases, k)) => Consistent(_aliases', k))
                                                 /\ ((Resolved(k) /\ _aliases[k] = None) => Consistent(_aliases', k))
                                                 /\ ((last'.op = "setPathOfAlias" /\ last'.alias # k) => _aliases'[k] = _aliases[k])]_vars

\* An entry was cached while others derived from an earlier root path remain.
C17_Witness == last.op = "getPathOfAlias" /\ last.alias = <<"app", "models", "*">> /\ _aliases[<<"app", "models", "*">>] = <<"srv", "lib", "models">> /\ _aliases[<<"app", "models", "User">>] = <<"srv", "app", "models", "User">>

(***************************************************************************)
(* Application slot, again.                                                *)
(***************************************************************************)
\* C18: whatever setApplication was called with, the slot holds at most one
\* application, and app() reports no application exactly when a following
\* setApplication of an application succeeds.
C18_EmptyIffRegistrable == [][/\ _app' \in AppArgs
                              /\ (last'.op = "setApplication" /\ last'.app \in Apps) => (last'.outcome = "ok" <=> _app \notin Apps)]_vars

(***************************************************************************)
(* Component factory, again.                                               *)
(***************************************************************************)
\* The type createComponent is asked for.
TypeOf(config) == IF config.bare THEN config.name ELSE ClassOf(config.entries)

\* A call of createComponent that names a dotted alias as its type.
CreatedFromAlias == last'.op = "createComponent" /\ (last'.config.bare \/ HasOwnClass(last'.config.entries)) /\ Len(TypeOf(last'.config)) > 1

\* The file a forced import of the alias loads, if there is one.
ClassFileOf(alias) == LET path == getPathOfAlias(_aliases, alias).path IN IF path # None /\ StatSync(WithExt(path)) = "file" THEN Require(WithExt(path)) ELSE None

\* C19: createComponent with a dotted alias as type imports it by force: when
\* its file exists the type is bound under the last segment and instantiated;
\* when the alias does not resolve or the file is missing the call fails with
\* InvalidAlias, makes no instance and binds no type.
C19_ForcedImportFallback == [][CreatedFromAlias => LET alias == TypeOf(last'.config) IN IF ClassFileOf(alias) # None THEN (last'.outcome = "ok" /\ last'.obj.made /\ last'.obj.type = ClassFileOf(alias) /\ target'[Last(alias)] = ClassFileOf(alias)) ELSE (last'.outcome = "InvalidAlias" /\ ~last'.obj.made /\ target' = target)]_vars

\* The entries but 'class', in their order.
OtherEntries(entries) == SelectSeq(entries, LAMBDA e : e[1] # "class")

\* C20: createComponent deletes the 'class' entry from the caller's
\* configuration object and leaves every other entry as it was, so that a
\* second call with the same object fails with the configuration error.
C20_DescriptorConsumed == [][(last'.op = "createComponent" /\ ~last'.config.bare /\ HasOwnClass(last'.config.entries)) => (last'.after = Config(FALSE, None, OtherEntries(last'.config.entries)) /\ createComponent(Tables', last'.after, last'.args).outcome = "ConfigurationError")]_vars

\* A component was built from a configuration that is left with its other entries.
C20_Witness == last.op = "createComponent" /\ last.outcome = "ok" /\ HasOwnClass(last.config.entries) /\ Len(last.config.entries) = 2 /\ Len(last.after.entries) = 1 /\ ~HasOwnClass(last.after.entries)

(***************************************************************************)
(* Importer: its calls while aliases are set and removed, and properties.  *)
(***************************************************************************)
\* The paths set around the imports: absolute, relative, null.
ImporterPathArgs == {NullPath, PathArg(TRUE, Cwd), PathArg(FALSE, <<"models">>)}

\* The aliases set around the imports: the root, and a compound one to remove.
ImporterSetNames == {<<"app">>, <<"app", "models", "*">>}

\* The calls on the importer and on the alias table it reads.
NextImport == \/ \E alias \in ImportAliases, force \in BOOLEAN : Import(alias, force)
              \/ \E alias \in ImporterSetNames, path \in ImporterPathArgs : (Len(alias) = 1 \/ path = NullPath) /\ SetPathOfAlias(alias, path)

SpecImport == Init /\ [][NextImport]_vars

\* A call of import with an alias that has a separator.
ImportedAlias == last'.op = "import" /\ Len(last'.alias) > 1

\* The path the alias resolver gives for the alias of the call.
PathOfImport == getPathOfAlias(_aliases, last'.alias).path

\* The resolver cannot resolve the alias, or the import is forced, of a class,
\* and no regular file is at path + extension.
CannotImport == PathOfImport = None \/ (last'.force /\ Last(last'.alias) # "*" /\ StatSync(WithExt(PathOfImport)) # "file")

\* The tables a failed import must leave alone.
ImportTables == <<_imports, _classMap, _includePaths, target>>

\* C11 as stated: an import of an alias with a separator fails with
\* InvalidAlias exactly when the alias cannot be imported, and a failed import
\* leaves import cache, class map, include path list and bindings as they were.
C11_FailsIffUnresolved == [][ImportedAlias => /\ last'.outcome \in {"ok", "InvalidAlias"}
                                              /\ last'.outcome = "InvalidAlias" <=> CannotImport
                                              /\ last'.outcome = "InvalidAlias" => ImportTables' = ImportTables]_vars

\* C11, amended: an import of an alias with a separator that is not in the
\* import cache fails with InvalidAlias exactly when the alias cannot be
\* imported; an alias in the import cache returns what was recorded and never
\* fails; a failed import leaves import cache, class map, include path list
\* and bindings as they were.
C11_FailsIffUnresolvedAndNew == [][ImportedAlias => /\ last'.outcome \in {"ok", "InvalidAlias"}
                                                    /\ last'.outcome = "InvalidAlias" <=> (_imports[last'.alias] = None /\ CannotImport)
                                                    /\ _imports[last'.alias] # None => (last'.value = _imports[last'.alias] /\ ImportTables' = ImportTables /\ _aliases' = _aliases)
                                                    /\ last'.outcome = "InvalidAlias" => ImportTables' = ImportTables]_vars

\* A forced import failed for want of the file, after tables had been filled.
C11_Witness == last.op = "import" /\ last.outcome = "InvalidAlias" /\ last.force /\ last.alias = <<"app", "models", "User">> /\ _aliases[<<"app", "models", "User">>] # None /\ _imports[<<"app", "models", "User">>] = None /\ _includePaths # None

\* The list has no path twice.
NoPathTwice(paths) == \A i, j \in 1..Len(paths) : paths[i] = paths[j] => i = j

\* The list p is the beginning of the list q.
StartsWith(q, p) == Len(p) <= Len(q) /\ SubSeq(q, 1, Len(p)) = p

\* A successful import of a wildcard alias.
ImportedWildcard == last'.op = "import" /\ last'.outcome = "ok" /\ Last(last'.alias) = "*"

\* C12 as stated: the include path list has no path twice and keeps its order,
\* and a wildcard import appends its directory, and nothing else, unless the
\* directory is listed.
C12_AppendsOnlyTheDirectory == [][/\ NoPathTwice(_includePaths')
                                  /\ StartsWith(_includePaths', _includePaths)
                                  /\ ImportedWildcard => (_includePaths' = IF \E i \in 1..Len(_includePaths) : _includePaths[i] = last'.value THEN _includePaths ELSE Append(_includePaths, last'.value))]_vars

\* C12, amended: the include path list has no path twice and keeps its order;
\* the first wildcard import creates it with the working directory, and
\* every wildcard import leaves its directory listed, the list growing by
\* that one entry at its end when the directory was not listed and not at
\* all when it was.
C12_NoPathTwice == [][/\ NoPathTwice(_includePaths')
                      /\ StartsWith(_includePaths', _includePaths)
                      /\ ImportedWildcard => LET listed == IF _includePaths = None THEN <<Cwd>> ELSE _includePaths
                                             IN /\ StartsWith(_includePaths', listed)
                                                /\ \E i \in 1..Len(_includePaths') : _includePaths'[i] = last'.value
                                                /\ Len(_includePaths') = Len(listed) + IF \E i \in 1..Len(listed) : listed[i] = last'.value THEN 0 ELSE 1]_vars

\* A second alias was imported whose directory an earlier alias had listed.
C12_Witness == last.op = "import" /\ last.alias = <<"app", "*">> /\ last.value = Cwd \o <<"models">> /\ _imports[<<"app", "models", "*">>] = Cwd \o <<"models">> /\ _includePaths = <<Cwd, Cwd \o <<"models">>>>

\* A call of import with a class alias that the resolver resolves.
ImportedClass(force) == ImportedAlias /\ Last(last'.alias) # "*" /\ last'.force = force /\ PathOfImport # None

\* C13: an import of a class alias that is not forced records type name ->
\* path + extension in the class map and returns the type name, binding
\* nothing and marking nothing imported; the file is loaded by the first later
\* reference to the type name; a forced import loads the file and binds the
\* type name during the call and marks the alias imported.
C13_LazyUnlessForced == [][/\ ImportedClass(FALSE) => /\ last'.outcome = "ok" /\ last'.value = <<Last(last'.alias)>>
                                                      /\ target' = target /\ _imports' = _imports /\ _includePaths' = _includePaths
                                                      /\ _classMap' = IF _imports[last'.alias] = None THEN [_classMap EXCEPT ![Last(last'.alias)] = WithExt(PathOfImport)] ELSE _classMap
                           /\ \A n \in TypeNames \ DOMAIN _coreClasses : (FirstReference(n) /\ _classMap[n] # None /\ Loadable(_classMap[n])) => (last'.value = Require(_classMap[n]) /\ target' = [target EXCEPT ![n] = Require(_classMap[n])])
                           /\ (ImportedClass(TRUE) /\ StatSync(WithExt(PathOfImport)) = "file") => /\ last'.outcome = "ok" /\ last'.value = <<Last(last'.alias)>>
                                                                                                   /\ _imports'[last'.alias] = <<Last(last'.alias)>>
                                                                                                   /\ target'[Last(last'.alias)] # None
                                                                                                   /\ _imports[last'.alias] = None => target' = [target EXCEPT ![Last(last'.alias)] = Require(WithExt(PathOfImport))]]_vars

\* The file recorded by an import that was not forced was loaded by a reference.
C13_Witness == last.op = "get" /\ last.alias = <<"User">> /\ last.value = Cwd \o <<"models", "User.js">> /\ _classMap["User"] = Cwd \o <<"models", "User.js">> /\ _imports[<<"app", "models", "User">>] = None /\ _includePaths = None

====
